---- MODULE Spec2Model ----
(***************************************************************************)
(* The Dynamically Dimensioned Search sampler of spotpy,                   *)
(* src/spotpy/algorithms/dds.py: the BestValue tracker, the boundary       *)
(* perturbations neigh_value_continuous / neigh_value_discrete, the        *)
(* neighbourhood generator calculate_next_s_test and the driver            *)
(* DDS.sample with calc_initial_para_configuration.                        *)
(*                                                                         *)
(* Real numbers are held in fixed point: the integer v stands for the      *)
(* real v / Unit.  A draw of np_random.rand() is k / Unit with k in        *)
(* 0 .. Unit-1, so 0 is a possible draw and 1 is not.                      *)
(***************************************************************************)
EXTENDS Integers, Sequences, FiniteSets, TLC

VARIABLES
    pc,                    \* position of DDS.sample
    error,                 \* the exception that ended sample, or "none"
    repetitions,           \* sample's argument repetitions
    trials,                \* sample's argument trials
    s_initial,             \* sample's argument s_initial
    initial_iterations,    \* sample's local initial_iterations
    trial,                 \* loop variable of `for trial in range(trials)`
    repetions_left,        \* calc_initial_para_configuration's local
    f_best,                \* its local f_best: <<>> is Python's [], <<v>> the number v
    x_best,                \* its local x_best
    pending,               \* reps of the starting generator not yet returned by repeat
    generator_repetitions, \* self.generator_repetitions
    rep,                   \* loop variable of get_next_x_curr
    debug_results,         \* sample's local debug_results
    evals,                 \* evaluations handed to the collaborator in this trial
    f_lowest,              \* the lowest objective they returned: <<>> before the first
    generation_order,      \* their results were processed in the order of generation
    best_value,            \* self.best_value, a BestValue object
    call,                  \* the last method called on a BestValue under test
    nv,                    \* a call of neigh_value_continuous / neigh_value_discrete
    ns                     \* a call of calculate_next_s_test

sampleVars == <<pc, error, repetitions, trials, s_initial, initial_iterations, trial,
                repetions_left, f_best, x_best, pending, generator_repetitions, rep,
                debug_results, evals, f_lowest, generation_order>>

vars == <<pc, error, repetitions, trials, s_initial, initial_iterations, trial,
          repetions_left, f_best, x_best, pending, generator_repetitions, rep,
          debug_results, evals, f_lowest, generation_order, best_value, call, nv, ns>>

(***************************************************************************)
(* Bounds of the model.                                                    *)
(***************************************************************************)
Half == 2          \* 0.5 in fixed point: the grid has 2 * Half points per unit
MaxBound == 1      \* bounds handed to the perturbations range over -1 .. MaxBound
MaxObj == 1        \* objective values range over 0 .. MaxObj
MaxRep == 7        \* repetitions ranges over 0 .. MaxRep (and 50, 1000)
MaxTrials == 2     \* trials ranges over 1 .. MaxTrials
MaxGen == 4        \* generator_repetitions of a direct calculate_next_s_test call

Unit == 2 * Half

\* np_random.rand(): k stands for k / Unit in [0, 1)
Rand == 0 .. (Unit - 1)

\* np_random.normal(0, 1) * r: any real; nr stands for nr / Unit
NormalTimesR == (0 - 3 * Unit) .. (3 * Unit)

CeilDiv(a, b) == 0 - ((0 - a) \div b)

Max(a, b) == IF a >= b THEN a ELSE b

(***************************************************************************)
(* numpy.round of a fixed-point value: to the nearest integer, a half to   *)
(* the even neighbour.                                                     *)
(***************************************************************************)
np_round(x) ==
    LET q == x \div Unit
        m == x % Unit
    IN  IF 2 * m < Unit THEN q * Unit
        ELSE IF 2 * m > Unit THEN (q + 1) * Unit
        ELSE IF q % 2 = 0 THEN q * Unit ELSE (q + 1) * Unit

(***************************************************************************)
(* BestValue (dds.py 6-30).  best_obj_val is always a number here: the     *)
(* constructor call of DDS.__init__ passes 0 and init passes an objective, *)
(* so the `is None` disjunct of update is never the one that decides.      *)
(***************************************************************************)
BestValue(parameters, obj_value) ==
    [parameters |-> parameters, best_obj_val |-> obj_value, best_rep |-> 0]

\* update with > in place of >= in line 23
update_strict(self, curr_parameters, curr_obj_val, curr_rep) ==
    IF self.best_obj_val > curr_obj_val
    THEN [parameters |-> curr_parameters, best_obj_val |-> curr_obj_val,
          best_rep |-> curr_rep]
    ELSE self

\* update without the test of line 23
update_always(self, curr_parameters, curr_obj_val, curr_rep) ==
    [parameters |-> curr_parameters, best_obj_val |-> curr_obj_val,
     best_rep |-> curr_rep]

update(self, curr_parameters, curr_obj_val, curr_rep) ==
    IF self.best_obj_val >= curr_obj_val
    THEN [parameters |-> curr_parameters, best_obj_val |-> curr_obj_val,
          best_rep |-> curr_rep]
    ELSE self

\* init that takes over the parameters and keeps the held objective
init_parameters_only(self, parameters, obj_value) ==
    [self EXCEPT !.parameters = parameters]

init(self, parameters, obj_value) ==
    [self EXCEPT !.parameters = parameters, !.best_obj_val = obj_value]

(***************************************************************************)
(* neigh_value_continuous (dds.py 305-358).  nr is the draw                *)
(* np_random.normal(0, 1) * r, p_abs_or_ref the draw of np_random.rand().  *)
(***************************************************************************)
\* neigh_value_continuous without the tests of lines 345 and 355
neigh_value_continuous_nocollapse(s, s_min, s_max, nr, p_abs_or_ref) ==
    LET s_range == s_max - s_min
        s_new == s + (nr * s_range) \div Unit
    IN  IF s_new < s_min
        THEN IF 2 * p_abs_or_ref <= Unit THEN s_min + (s_min - s_new) ELSE s_min
        ELSE IF s_new > s_max
        THEN IF 2 * p_abs_or_ref <= Unit THEN s_max - (s_new - s_max) ELSE s_max
        ELSE s_new

neigh_value_continuous(s, s_min, s_max, nr, p_abs_or_ref) ==
    LET s_range == s_max - s_min
        s_new == s + (nr * s_range) \div Unit
        low == IF 2 * p_abs_or_ref <= Unit THEN s_min + (s_min - s_new) ELSE s_min
        high == IF 2 * p_abs_or_ref <= Unit THEN s_max - (s_new - s_max) ELSE s_max
    IN  IF s_new < s_min
        THEN IF low > s_max THEN s_min ELSE low
        ELSE IF s_new > s_max
        THEN IF high < s_min THEN s_max ELSE high
        ELSE s_new

(***************************************************************************)
(* neigh_value_discrete (dds.py 360-416).  u is the draw of                *)
(* np_random.rand() of line 411.  The test of line 396 sits inside the     *)
(* absorb branch (16 columns), the test of line 406 after the if/else      *)
(* (12 columns).                                                           *)
(***************************************************************************)
\* lines 411-415 with <= in place of < in line 412
resample_keep_equal(s, s_min, s_max, u) ==
    LET sample == s_min - Unit + Unit * CeilDiv((s_max - s_min) * u, Unit * Unit)
    IN  IF sample <= s THEN sample ELSE sample + Unit

resample(s, s_min, s_max, u) ==
    LET sample == s_min - Unit + Unit * CeilDiv((s_max - s_min) * u, Unit * Unit)
    IN  IF sample < s THEN sample ELSE sample + Unit

neigh_value_discrete(s, s_min, s_max, nr, p_abs_or_ref, u) ==
    LET s_range == s_max - s_min
        delta == (nr * s_range) \div Unit
        s_new == s + delta
        absorbed == IF s_min > s_max + Half THEN s_min ELSE s_min
        low == IF 2 * p_abs_or_ref <= Unit
               THEN (s_min - Half) + ((s_min - Half) - s_new)
               ELSE absorbed
        high == IF 2 * p_abs_or_ref <= Unit
                THEN (s_max + Half) - (s_new - (s_max + Half))
                ELSE s_max
        bounded == IF s_new < s_min - Half THEN low
                   ELSE IF s_new > s_max + Half
                   THEN IF high < s_min - Half THEN s_max ELSE high
                   ELSE s_new
        rounded == np_round(bounded)
    IN  IF rounded = s THEN resample(s, s_min, s_max, u) ELSE rounded

(***************************************************************************)
(* Calls of the two perturbations on their own: the arguments are drawn    *)
(* in the initial state and the call is one step.  Bounds are whole        *)
(* numbers with s_min <= s_max; s lies within them, on the grid for the    *)
(* continuous variant and integral for the discrete one.                   *)
(***************************************************************************)
NoCall == [fn |-> "none", s |-> 0, s_min |-> 0, s_max |-> 0, nr |-> 0,
           p_abs_or_ref |-> 0, u |-> 0, called |-> FALSE, s_new |-> 0]

BoundValues == {Unit * b : b \in (0 - 1) .. MaxBound}

CallNeighValueContinuous ==
    /\ nv.fn = "continuous"
    /\ ~nv.called
    /\ nv' = [nv EXCEPT !.called = TRUE,
                        !.s_new = neigh_value_continuous(nv.s, nv.s_min, nv.s_max,
                                                         nv.nr, nv.p_abs_or_ref)]
    /\ UNCHANGED <<sampleVars, best_value, call, ns>>

CallNeighValueDiscrete ==
    /\ nv.fn = "discrete"
    /\ ~nv.called
    /\ nv' = [nv EXCEPT !.called = TRUE,
                        !.s_new = neigh_value_discrete(nv.s, nv.s_min, nv.s_max,
                                                       nv.nr, nv.p_abs_or_ref, nv.u)]
    /\ UNCHANGED <<sampleVars, best_value, call, ns>>

(***************************************************************************)
(* The parameter space read by DDS.__init__ (dds.py 101-108): two          *)
(* parameters, the first continuous on [0, 1], the second discrete on      *)
(* 0 .. 2.  Python's index j is the tuple index j + 1.                     *)
(***************************************************************************)
min_bound == <<0, 0>>
max_bound == <<Unit, 2 * Unit>>
discrete_flag == <<FALSE, TRUE>>
number_of_parameters == Len(min_bound)

\* self.parameter(), the structured parameter array handed to BestValue by
\* __init__; it is no solution vector and the empty tuple stands for it
parameter == <<>>

\* the solution vectors within the bounds, integral where discrete
Vectors ==
    {x \in [1 .. number_of_parameters -> 0 .. (2 * Unit)] :
        \A j \in 1 .. number_of_parameters :
            /\ min_bound[j] <= x[j]
            /\ x[j] <= max_bound[j]
            /\ discrete_flag[j] => x[j] % Unit = 0}

Objectives == 0 .. MaxObj

neigh_value_mixed(s, s_min, s_max, nr, p_abs_or_ref, u, j) ==
    IF ~discrete_flag[j + 1]
    THEN neigh_value_continuous(s, s_min, s_max, nr, p_abs_or_ref)
    ELSE neigh_value_discrete(s, s_min, s_max, nr, p_abs_or_ref, u)

\* every value neigh_value_mixed can return for dimension j at value s
NeighValues(s, j) ==
    {neigh_value_mixed(s, min_bound[j + 1], max_bound[j + 1], z, p, u, j) :
        z \in NormalTimesR, p \in Rand, u \in Rand}

RECURSIVE Pow(_, _)
Pow(b, e) == IF e = 0 THEN 1 ELSE b * Pow(b, e - 1)

(***************************************************************************)
(* randompar[j] < 1.0 - np.log(rep + 1) / np.log(generator_repetitions)    *)
(* (dds.py 284, 289) for the draw k / Unit.  With N >= 2 the test is       *)
(* ln(rep+1) < (1 - k/Unit) ln N, that is (rep+1)^Unit < N^(Unit-k).       *)
(* N = 1 divides by log(1) = 0: the threshold is nan or -inf and no draw   *)
(* is below it.  N = 0 gives log(0) = -inf and the threshold 1.0; N < 0    *)
(* gives nan.                                                              *)
(***************************************************************************)
\* the same test with np.log(rep) in place of np.log(rep + 1)
below_probability_neighborhood_of_rep(k, rp, N) ==
    IF N >= 2 THEN Pow(rp, Unit) < Pow(N, Unit - k)
    ELSE IF N = 1 THEN FALSE
    ELSE IF N = 0 THEN TRUE
    ELSE FALSE

below_probability_neighborhood(k, rp, N) ==
    IF N >= 2 THEN Pow(rp + 1, Unit) < Pow(N, Unit - k)
    ELSE IF N = 1 THEN FALSE
    ELSE IF N = 0 THEN TRUE
    ELSE FALSE

\* Python's list index: a negative index counts from the end
PyIndex(i, n) == IF i < 0 THEN i + n ELSE i

\* dec_var of line 296 for the draw k / Unit
dec_var_of(amount_params, k) == CeilDiv(amount_params * k, Unit)

(***************************************************************************)
(* The dimensions calculate_next_s_test passes through neigh_value_mixed   *)
(* (dds.py 288-301) when the uniform draws selected the set sel: sel       *)
(* itself, or, with sel empty, the one dimension dec_var - 1 for each      *)
(* draw of line 296.  A draw of 0 gives dec_var = 0 and the index -1,      *)
(* which Python reads as the last dimension.                               *)
(***************************************************************************)
\* lines 288-301 without the branch of line 295
chosen_dimensions_no_fallback(sel, amount_params) == {sel}

chosen_dimensions(sel, amount_params) ==
    IF sel # {} THEN {sel}
    ELSE {{PyIndex(dec_var_of(amount_params, k) - 1, amount_params)} : k \in Rand}

\* the vectors that result from x when every dimension of todo is replaced
\* by one of its neighbouring values
RECURSIVE Perturbed(_, _, _)
Perturbed(previous_x_curr, x, todo) ==
    IF todo = {} THEN {x}
    ELSE LET j == CHOOSE d \in todo : \A e \in todo : d <= e
         IN  UNION {Perturbed(previous_x_curr, [x EXCEPT ![j + 1] = v], todo \ {j}) :
                        v \in NeighValues(previous_x_curr[j + 1], j)}

(***************************************************************************)
(* calculate_next_s_test (dds.py 260-303): the set of its outcomes over    *)
(* all draws.  r is part of the draws nr; all_rep is not read, the code    *)
(* reads self.generator_repetitions.  With the vector returned, an outcome *)
(* names the dimensions the draws of line 289 selected and the dimensions  *)
(* that went through neigh_value_mixed, and the list the caller passed as   *)
(* previous_x_curr as it is after the call: line 278 works on a copy,      *)
(* list(previous_x_curr), so the caller's list keeps its values.           *)
(***************************************************************************)
\* the same with new_x_curr being the caller's list itself, not a copy of it
calculate_next_s_test_in_place(previous_x_curr, rp, all_rep) ==
    LET amount_params == Len(previous_x_curr)
        Dims == 0 .. (amount_params - 1)
        Selected(randompar) ==
            {j \in Dims : below_probability_neighborhood(
                              randompar[j + 1], rp, generator_repetitions)}
        Selections == {Selected(randompar) : randompar \in [1 .. amount_params -> Rand]}
    IN  UNION {UNION {{[new_x_curr |-> x, dvn_count |-> Cardinality(sel),
                        perturbed |-> dims, previous_x_curr_after |-> x] :
                          x \in Perturbed(previous_x_curr, previous_x_curr, dims)} :
                      dims \in chosen_dimensions(sel, amount_params)} :
               sel \in Selections}

calculate_next_s_test(previous_x_curr, rp, all_rep) ==
    LET amount_params == Len(previous_x_curr)
        Dims == 0 .. (amount_params - 1)
        Selected(randompar) ==
            {j \in Dims : below_probability_neighborhood(
                              randompar[j + 1], rp, generator_repetitions)}
        Selections == {Selected(randompar) : randompar \in [1 .. amount_params -> Rand]}
    IN  UNION {UNION {{[new_x_curr |-> x, dvn_count |-> Cardinality(sel),
                        perturbed |-> dims,
                        previous_x_curr_after |-> previous_x_curr] :
                          x \in Perturbed(previous_x_curr, previous_x_curr, dims)} :
                      dims \in chosen_dimensions(sel, amount_params)} :
               sel \in Selections}

(***************************************************************************)
(* A call of calculate_next_s_test on its own, for a loop index rep of a   *)
(* search loop of generator_repetitions steps.                             *)
(***************************************************************************)
NoNext == [previous_x_curr |-> <<>>, rep |-> 0, called |-> FALSE,
           new_x_curr |-> <<>>, dvn_count |-> 0, perturbed |-> {},
           previous_x_curr_after |-> <<>>]

CallCalculateNextSTest ==
    /\ ns.previous_x_curr # <<>>
    /\ ~ns.called
    /\ \E out \in calculate_next_s_test(ns.previous_x_curr, ns.rep, generator_repetitions) :
          ns' = [ns EXCEPT !.called = TRUE, !.new_x_curr = out.new_x_curr,
                           !.dvn_count = out.dvn_count, !.perturbed = out.perturbed,
                           !.previous_x_curr_after = out.previous_x_curr_after]
    /\ UNCHANGED <<sampleVars, best_value, call, nv>>

(***************************************************************************)
(* Calls of init and update on a BestValue on its own, starting from the   *)
(* object DDS.__init__ constructs (dds.py 103).                            *)
(***************************************************************************)
NoBestCall == [op |-> "none", parameters |-> <<>>, obj_value |-> 0, rep |-> 0,
               prev |-> BestValue(parameter, 0)]

TrackedVectors == {x \in Vectors : x[1] \in {min_bound[1], max_bound[1]}}

CallInit ==
    \E p \in TrackedVectors, o \in Objectives :
        /\ best_value' = init(best_value, p, o)
        /\ call' = [op |-> "init", parameters |-> p, obj_value |-> o, rep |-> 0,
                    prev |-> best_value]
        /\ UNCHANGED <<sampleVars, nv, ns>>

CallUpdate ==
    \E p \in TrackedVectors, o \in Objectives, r \in 0 .. MaxGen :
        /\ best_value' = update(best_value, p, o, r)
        /\ call' = [op |-> "update", parameters |-> p, obj_value |-> o, rep |-> r,
                    prev |-> best_value]
        /\ UNCHANGED <<sampleVars, nv, ns>>

(***************************************************************************)
(* The DDS object after construction (dds.py 93-115), sample not called.   *)
(***************************************************************************)
Constructed ==
    /\ pc = "idle"
    /\ error = "none"
    /\ repetitions = 0
    /\ trials = 0
    /\ s_initial = <<>>
    /\ initial_iterations = 0
    /\ trial = 0
    /\ repetions_left = 0
    /\ f_best = <<>>
    /\ x_best = <<>>
    /\ pending = {}
    /\ generator_repetitions = 0 - 1
    /\ rep = 0
    /\ debug_results = <<>>
    /\ evals = 0
    /\ f_lowest = <<>>
    /\ generation_order = TRUE
    /\ best_value = BestValue(parameter, 0)
    /\ call = NoBestCall

InitNeigh ==
    /\ Constructed
    /\ ns = NoNext
    /\ \E lo \in BoundValues, hi \in BoundValues, z \in NormalTimesR, p \in Rand :
          \/ \E s \in lo .. hi :
                nv = [NoCall EXCEPT !.fn = "continuous", !.s = s, !.s_min = lo,
                                    !.s_max = hi, !.nr = z, !.p_abs_or_ref = p]
          \/ \E s \in {b \in BoundValues : lo <= b /\ b <= hi}, u \in Rand :
                nv = [NoCall EXCEPT !.fn = "discrete", !.s = s, !.s_min = lo,
                                    !.s_max = hi, !.nr = z, !.p_abs_or_ref = p,
                                    !.u = u]

NextNeigh == CallNeighValueContinuous \/ CallNeighValueDiscrete

SpecNeigh == InitNeigh /\ [][NextNeigh]_vars

InitNextSTest ==
    /\ pc = "idle"
    /\ error = "none"
    /\ repetitions = 0
    /\ trials = 0
    /\ s_initial = <<>>
    /\ initial_iterations = 0
    /\ trial = 0
    /\ repetions_left = 0
    /\ f_best = <<>>
    /\ x_best = <<>>
    /\ pending = {}
    /\ generator_repetitions \in 1 .. MaxGen
    /\ rep = 0
    /\ debug_results = <<>>
    /\ evals = 0
    /\ f_lowest = <<>>
    /\ generation_order = TRUE
    /\ best_value = BestValue(parameter, 0)
    /\ call = NoBestCall
    /\ nv = NoCall
    /\ ns \in {[NoNext EXCEPT !.previous_x_curr = x, !.rep = i] :
                  x \in Vectors, i \in 0 .. (MaxGen - 1)}
    /\ ns.rep < generator_repetitions

NextNextSTest == CallCalculateNextSTest

SpecNextSTest == InitNextSTest /\ [][NextNextSTest]_vars

InitBestValue ==
    /\ Constructed
    /\ nv = NoCall
    /\ ns = NoNext

NextBestValue == CallInit \/ CallUpdate

SpecBestValue == InitBestValue /\ [][NextBestValue]_vars

(***************************************************************************)
(* DDS.sample (dds.py 128-210) with calc_initial_para_configuration        *)
(* (212-258) and get_next_x_curr (120-126).  An exception leaves pc where  *)
(* it was raised and sets error; nothing runs after it.                    *)
(***************************************************************************)
NoError == "none"
LengthError == "ValueError: User specified 's_initial' has not the same length as available parameters"
RangeError == "ValueError: User specified 's_initial' but the values are not within the parameter range"
BudgetError == "ValueError: # Initialization samples >= Max # function evaluations."
CompareError == "TypeError: '<=' not supported between instances of 'float' and 'list'"
ArityError == "TypeError: calculate_next_s_test() missing 1 required positional argument: 'r'"

\* Python 3's round(num / den): to the nearest integer, a half to the even one
py_round(num, den) ==
    LET q == num \div den
        m == num % den
    IN  IF 2 * m < den THEN q
        ELSE IF 2 * m > den THEN q + 1
        ELSE IF q % 2 = 0 THEN q ELSE q + 1

\* line 170 with the smaller of the two numbers taken
initial_iterations_min(reps) ==
    IF 5 <= py_round(5 * reps, 1000) THEN 5 ELSE py_round(5 * reps, 1000)

\* np.int(np.max([5, round(0.005 * repetitions)])) of line 170

initial_iterations_of(reps) == Max(5, py_round(5 * reps, 1000))

\* the test of line 225 with < in place of <=
no_repetitions_left_negative(left) == left < 0

\* the test of line 225

no_repetitions_left(left) == left <= 0

\* the vectors the starting generator of lines 228-232 draws: randint over
\* min .. max where discrete, min + range * rand() otherwise
StartingVectors ==
    {x \in Vectors :
        \A j \in 1 .. number_of_parameters :
            ~discrete_flag[j] =>
                \E k \in Rand : x[j] * Unit = min_bound[j] * Unit
                                              + (max_bound[j] - min_bound[j]) * k}

\* the arguments sample is called with
Repetitions == (0 .. MaxRep) \cup {50, 1000, 1100}

SuppliedValues == {0 - Half, 0, Half, Unit, 2 * Unit, 2 * Unit + Half}

SuppliedVectors ==
    {<<>>, <<0>>, <<0, 0, 0>>}
    \cup [1 .. number_of_parameters -> SuppliedValues]

\* the same test with the bounds themselves excluded
within_bounds_exclusive(x) ==
    /\ \A j \in 1 .. Len(x) : x[j] < max_bound[j]
    /\ \A j \in 1 .. Len(x) : x[j] > min_bound[j]

\* lines 175-176: np.all(s_initial <= max_bound) and np.all(s_initial >= min_bound)
within_bounds(x) ==
    /\ \A j \in 1 .. Len(x) : x[j] <= max_bound[j]
    /\ \A j \in 1 .. Len(x) : x[j] >= min_bound[j]

(***************************************************************************)
(* The order in which repeat hands back the results of a batch of          *)
(* independent candidates: any.                                            *)
(***************************************************************************)
repeat_may_yield(waiting) == waiting

\* lines 165-170: no initial vector
SampleRandom ==
    /\ pc = "sample" /\ error = NoError
    /\ Len(s_initial) = 0
    /\ initial_iterations' = initial_iterations_of(repetitions)
    /\ pc' = "trial_loop"
    /\ UNCHANGED <<error, repetitions, trials, s_initial, trial, repetions_left, f_best,
                   x_best, pending, generator_repetitions, rep, debug_results, evals,
                   best_value, call, nv,
                   ns, f_lowest, generation_order>>

\* lines 171-172
SampleWrongLength ==
    /\ pc = "sample" /\ error = NoError
    /\ Len(s_initial) # 0
    /\ Len(s_initial) # number_of_parameters
    /\ error' = LengthError
    /\ UNCHANGED <<pc, repetitions, trials, s_initial, initial_iterations, trial,
                   repetions_left, f_best, x_best, pending, generator_repetitions, rep,
                   debug_results, evals, best_value, call, nv,
                   ns, f_lowest, generation_order>>

\* lines 173-177
SampleSupplied ==
    /\ pc = "sample" /\ error = NoError
    /\ Len(s_initial) # 0
    /\ Len(s_initial) = number_of_parameters
    /\ initial_iterations' = 1
    /\ IF ~within_bounds(s_initial)
       THEN error' = RangeError /\ pc' = pc
       ELSE error' = error /\ pc' = "trial_loop"
    /\ UNCHANGED <<repetitions, trials, s_initial, trial, repetions_left, f_best,
                   x_best, pending, generator_repetitions, rep, debug_results, evals,
                   best_value, call, nv,
                   ns, f_lowest, generation_order>>

\* lines 180-183 and 212-232: a trial starts in random-sample mode
TrialRandom ==
    /\ pc = "trial_loop" /\ error = NoError
    /\ trial < trials
    /\ initial_iterations > 1
    /\ repetions_left' = repetitions - initial_iterations
    /\ x_best' = <<>>
    /\ f_best' = <<>>
    /\ evals' = 0
    /\ f_lowest' = <<>>
    /\ generation_order' = TRUE
    /\ IF no_repetitions_left(repetitions - initial_iterations)
       THEN error' = BudgetError /\ pc' = pc /\ pending' = pending
       ELSE error' = error /\ pc' = "initial_sampling"
            /\ pending' = 0 .. (initial_iterations - 1)
    /\ UNCHANGED <<repetitions, trials, s_initial, initial_iterations, trial,
                   generator_repetitions, rep, debug_results, best_value, call, nv, ns>>

\* lines 234-245: one result of the starting generator comes back
InitialSample ==
    /\ pc = "initial_sampling" /\ error = NoError
    /\ \E r \in repeat_may_yield(pending), x_curr \in StartingVectors,
          f_curr \in Objectives :
          /\ pending' = pending \ {r}
          /\ evals' = evals + 1
          /\ f_lowest' = IF f_lowest = <<>> \/ f_curr < f_lowest[1]
                         THEN <<f_curr>> ELSE f_lowest
          /\ generation_order' = (generation_order /\ \A q \in pending : r <= q)
          /\ \/ /\ r = 0
                /\ f_best' = <<f_curr>> /\ x_best' = x_curr /\ error' = error
             \/ /\ r # 0 /\ f_best # <<>>
                /\ IF f_curr <= f_best[1]
                   THEN f_best' = <<f_curr>> /\ x_best' = x_curr
                   ELSE f_best' = f_best /\ x_best' = x_best
                /\ error' = error
             \* f_curr <= [] : a TypeError for a Python 3 float, an empty and so
             \* false array for a numpy float, True in Python 2
             \/ /\ r # 0 /\ f_best = <<>>
                /\ error' = CompareError /\ f_best' = f_best /\ x_best' = x_best
             \/ /\ r # 0 /\ f_best = <<>>
                /\ error' = error /\ f_best' = f_best /\ x_best' = x_best
             \/ /\ r # 0 /\ f_best = <<>>
                /\ error' = error /\ f_best' = <<f_curr>> /\ x_best' = x_curr
    /\ UNCHANGED <<pc, repetitions, trials, s_initial, initial_iterations, trial,
                   repetions_left, generator_repetitions, rep, debug_results,
                   best_value, call, nv, ns>>

\* lines 258 and 183-192: the batch is through, the tracker is seeded
InitialDone ==
    /\ pc = "initial_sampling" /\ error = NoError
    /\ pending = {}
    /\ best_value' = init(best_value, x_best, f_best[1])
    /\ generator_repetitions' = repetions_left
    /\ rep' = 0
    /\ pc' = "searching"
    /\ UNCHANGED <<error, repetitions, trials, s_initial, initial_iterations, trial,
                   repetions_left, f_best, x_best, pending, debug_results, evals,
                   call, nv,
                   ns, f_lowest, generation_order>>

\* the budget left untouched by the evaluation of the supplied vector
supplied_repetions_left_all(reps) == reps

\* line 248: repetions_left = repetitions - 1
supplied_repetions_left(reps) == reps - 1

\* lines 180-192 and 247-258: a trial starts from the supplied vector
TrialSupplied ==
    /\ pc = "trial_loop" /\ error = NoError
    /\ trial < trials
    /\ ~(initial_iterations > 1)
    /\ \E f_curr \in Objectives :
          /\ f_best' = <<f_curr>>
          /\ f_lowest' = <<f_curr>>
          /\ generation_order' = TRUE
          /\ best_value' = init(best_value, s_initial, f_curr)
    /\ repetions_left' = supplied_repetions_left(repetitions)
    /\ x_best' = s_initial
    /\ evals' = 1
    /\ generator_repetitions' = supplied_repetions_left(repetitions)
    /\ rep' = 0
    /\ pc' = "searching"
    /\ UNCHANGED <<error, repetitions, trials, s_initial, initial_iterations, trial,
                   pending, debug_results, call, nv, ns>>

(***************************************************************************)
(* lines 196 and 125-126: repeat pulls the next candidate.  The generator  *)
(* calls calculate_next_s_test(self.best_value.parameters, rep, self.r),   *)
(* three arguments for the four parameters previous_x_curr, rep, all_rep,  *)
(* r of line 260: the call raises before the body runs, so lines 197-199   *)
(* are never reached.                                                      *)
(***************************************************************************)
GetNextXCurr ==
    /\ pc = "searching" /\ error = NoError
    /\ rep < generator_repetitions
    /\ error' = ArityError
    /\ UNCHANGED <<pc, repetitions, trials, s_initial, initial_iterations, trial,
                   repetions_left, f_best, x_best, pending, generator_repetitions, rep,
                   debug_results, evals, best_value, call, nv,
                   ns, f_lowest, generation_order>>

\* the trial's result put in front of the earlier ones
debug_results_prepend(results, sbest, trial_initial, objfunc_val) ==
    <<[sbest |-> sbest, trial_initial |-> trial_initial,
       objfunc_val |-> objfunc_val]>> \o results

\* lines 206-208: debug_results.append({"sbest": ..., "trial_initial": ...,
\* "objfunc_val": ...})
debug_results_append(results, sbest, trial_initial, objfunc_val) ==
    Append(results, [sbest |-> sbest, trial_initial |-> trial_initial,
                     objfunc_val |-> objfunc_val])

\* lines 125 and 206-208: the generator is exhausted, the trial's result is kept
TrialDone ==
    /\ pc = "searching" /\ error = NoError
    /\ ~(rep < generator_repetitions)
    /\ debug_results' = debug_results_append(debug_results, best_value.parameters,
                                             x_best, best_value.best_obj_val)
    /\ trial' = trial + 1
    /\ pc' = "trial_loop"
    /\ UNCHANGED <<error, repetitions, trials, s_initial, initial_iterations,
                   repetions_left, f_best, x_best, pending, generator_repetitions, rep,
                   evals, best_value, call, nv,
                   ns, f_lowest, generation_order>>

\* line 210
Return ==
    /\ pc = "trial_loop" /\ error = NoError
    /\ ~(trial < trials)
    /\ pc' = "returned"
    /\ UNCHANGED <<error, repetitions, trials, s_initial, initial_iterations, trial,
                   repetions_left, f_best, x_best, pending, generator_repetitions, rep,
                   debug_results, evals, best_value, call, nv,
                   ns, f_lowest, generation_order>>

Init ==
    /\ pc = "sample"
    /\ error = NoError
    /\ repetitions \in Repetitions
    /\ trials \in 1 .. MaxTrials
    /\ s_initial \in SuppliedVectors
    /\ initial_iterations = 0
    /\ trial = 0
    /\ repetions_left = 0
    /\ f_best = <<>>
    /\ x_best = <<>>
    /\ pending = {}
    /\ generator_repetitions = 0 - 1
    /\ rep = 0
    /\ debug_results = <<>>
    /\ evals = 0
    /\ f_lowest = <<>>
    /\ generation_order = TRUE
    /\ best_value = BestValue(parameter, 0)
    /\ call = NoBestCall
    /\ nv = NoCall
    /\ ns = NoNext

Next ==
    \/ SampleRandom
    \/ SampleWrongLength
    \/ SampleSupplied
    \/ TrialRandom
    \/ InitialSample
    \/ InitialDone
    \/ TrialSupplied
    \/ GetNextXCurr
    \/ TrialDone
    \/ Return

Spec == Init /\ [][Next]_vars

(***************************************************************************)
(* Properties.                                                             *)
(***************************************************************************)

C3_SearchRunsToDone ==
    (pc = "searching" /\ generator_repetitions > 0) => error = NoError

\* C5: neigh_value_continuous returns a value within [s_min, s_max].
C5_ContinuousWithinBounds ==
    (nv.fn = "continuous" /\ nv.called) =>
        (nv.s_min <= nv.s_new /\ nv.s_new <= nv.s_max)

\* a reflection at s_min that went past s_max and was collapsed to s_min
C5_ReflectionCollapsed ==
    /\ nv.fn = "continuous" /\ nv.called
    /\ 2 * nv.p_abs_or_ref <= Unit
    /\ nv.s + (nv.nr * (nv.s_max - nv.s_min)) \div Unit < 2 * nv.s_min - nv.s_max
    /\ nv.s_new = nv.s_min

\* C6: neigh_value_discrete returns an integer within [s_min, s_max]; stated
\* for s_min < s_max and a resampling draw above 0, where the resampling of
\* lines 411-415 stays within the bounds and only the margins decide.
C6_DiscreteWithinBounds ==
    (nv.fn = "discrete" /\ nv.called /\ nv.s_min < nv.s_max /\ nv.u > 0) =>
        /\ nv.s_new % Unit = 0
        /\ nv.s_min <= nv.s_new
        /\ nv.s_new <= nv.s_max

\* C7: neigh_value_discrete never returns the value s it was given.
C7_DiscreteMoves ==
    (nv.fn = "discrete" /\ nv.called) => nv.s_new # nv.s

\* a perturbation of 0, which rounds back to s, resampled to another value
C7_Resampled ==
    /\ nv.fn = "discrete" /\ nv.called
    /\ nv.nr = 0
    /\ nv.s_min < nv.s_max
    /\ nv.s_new # nv.s
    /\ nv.s_min <= nv.s_new /\ nv.s_new <= nv.s_max

\* C8: every call of calculate_next_s_test passes at least one dimension
\* through the perturbation; when the uniform draws select none, exactly one
\* dimension of 0 .. number_of_parameters-1 is.
C8_AtLeastOneDimension ==
    ns.called =>
        /\ ns.perturbed # {}
        /\ ns.perturbed \subseteq 0 .. (number_of_parameters - 1)
        /\ ns.dvn_count = 0 => Cardinality(ns.perturbed) = 1

\* a call in which no dimension was selected and the last one was perturbed
C8_FallbackTaken ==
    /\ ns.called
    /\ ns.dvn_count = 0
    /\ ns.perturbed = {number_of_parameters - 1}
    /\ ns.new_x_curr[number_of_parameters] # ns.previous_x_curr[number_of_parameters]

\* C9: in random-sample mode a trial evaluates max(5, round(0.005 *
\* repetitions)) initial samples and its search loop has repetitions minus
\* that many steps; 1000 gives 5 and 995, 50 gives 5 and 45.
C9_InitialSampleCount ==
    (Len(s_initial) = 0 /\ pc = "searching") =>
        /\ \E n \in 0 .. repetitions :
              /\ 200 * n - 100 <= repetitions
              /\ repetitions <= 200 * n + 100
              /\ evals = IF n > 5 THEN n ELSE 5
        /\ generator_repetitions = repetitions - evals
        /\ repetitions = 1000 => (evals = 5 /\ generator_repetitions = 995)
        /\ repetitions = 50 => (evals = 5 /\ generator_repetitions = 45)

\* sample(50) has evaluated its 5 initial samples and set up 45 search steps
C9_FiftyGivesFortyFive ==
    /\ Len(s_initial) = 0 /\ pc = "searching" /\ error = NoError
    /\ repetitions = 50 /\ evals = 5 /\ generator_repetitions = 45

\* C10: in random-sample mode with initial_iterations >= repetitions, sample
\* stops with the budget ValueError, no evaluation made and no result kept.
C10_BudgetErrorBeforeEvaluation ==
    (Len(s_initial) = 0 /\ pc # "sample" /\ initial_iterations >= repetitions) =>
        /\ evals = 0
        /\ debug_results = <<>>
        /\ pc = "trial_loop" /\ trial = 0
        /\ error \in {NoError, BudgetError}
        /\ ~ENABLED Next => error = BudgetError

\* sample(5) stopped with the budget error
C10_FiveRaises ==
    /\ Len(s_initial) = 0 /\ repetitions = 5 /\ initial_iterations = 5
    /\ error = BudgetError /\ evals = 0 /\ debug_results = <<>>

\* C11: the search loop is entered only with more than one search repetition
\* left; when the budget leaves one or none (repetitions - initial_iterations
\* without a vector, repetitions - 1 with one), sample has stopped with the
\* budget error and no evaluation was made (stated for a budget of at least 1).
C11_SearchNeedsMoreThanOneStep ==
    (pc # "sample" /\ repetitions >= 1 /\ error \notin {LengthError, RangeError} /\
     (IF Len(s_initial) = 0 THEN repetitions - initial_iterations
                            ELSE repetitions - 1) <= 1) =>
        /\ evals = 0
        /\ pc # "searching"
        /\ error \in {NoError, BudgetError}
        /\ ~ENABLED Next => error = BudgetError

\* C12: a supplied non-empty vector is accepted exactly when it has one
\* component per parameter and each lies within its bounds, the bounds
\* included; any other vector stops sample with the length or the range
\* ValueError, with no evaluation made and no trial started.
C12_SuppliedVectorValidated ==
    Len(s_initial) # 0 =>
        LET valid == /\ Len(s_initial) = number_of_parameters
                     /\ \A j \in 1 .. number_of_parameters :
                           /\ min_bound[j] <= s_initial[j]
                           /\ s_initial[j] <= max_bound[j]
        IN  /\ valid => /\ error \notin {LengthError, RangeError}
                        /\ ~ENABLED Next => pc # "sample"
            /\ ~valid => /\ pc = "sample" /\ evals = 0 /\ debug_results = <<>>
                         /\ error \in {NoError, LengthError, RangeError}
                         /\ ~ENABLED Next =>
                                error = IF Len(s_initial) # number_of_parameters
                                        THEN LengthError ELSE RangeError

\* a vector lying on its upper bounds was accepted and evaluated
C12_VectorOnBoundAccepted ==
    /\ s_initial = max_bound /\ pc = "searching" /\ evals = 1
    /\ best_value.parameters = max_bound

\* C13: with a supplied vector every trial evaluates that vector once, takes
\* it and the objective returned for it as the trial's initial solution and
\* as the tracker's starting best, and is left with repetitions - 1 search
\* repetitions.
C13_SuppliedVectorSeedsTrial ==
    (Len(s_initial) # 0 /\ pc = "searching") =>
        /\ evals = 1
        /\ x_best = s_initial
        /\ f_best # <<>>
        /\ best_value.parameters = s_initial
        /\ best_value.best_obj_val = f_best[1]
        /\ repetions_left = repetitions - 1
        /\ generator_repetitions = repetitions - 1

\* the second trial of a run was seeded with the supplied vector and with an
\* objective other than the first trial's
C13_SecondTrialSeeded ==
    /\ Len(s_initial) # 0 /\ pc = "searching" /\ trial = 1
    /\ Len(debug_results) = 1
    /\ best_value.parameters = s_initial
    /\ best_value.best_obj_val # debug_results[1].objfunc_val

\* C14: in random-sample mode, whatever the order in which the results of the
\* initial batch come back, the objective retained for the trial and handed
\* to the tracker is the lowest one among all evaluated initial samples.
C14_InitialBestIsLowest ==
    (Len(s_initial) = 0 /\ pc = "searching") =>
        /\ f_best = f_lowest
        /\ best_value.best_obj_val = f_lowest[1]

\* C15: sample keeps one result per completed trial, in trial order: the
\* result of the trial just completed holds that trial's best parameters,
\* its initial parameters and its best objective, earlier results are never
\* changed, and a sample that returns has exactly `trials` of them.
C15_OneResultPerTrialInOrder ==
    /\ [](/\ Len(debug_results) = trial
          /\ pc = "returned" => Len(debug_results) = trials
          /\ (pc = "trial_loop" /\ trial > 0) =>
                debug_results[trial] = [sbest |-> best_value.parameters,
                                        trial_initial |-> x_best,
                                        objfunc_val |-> best_value.best_obj_val])
    /\ [][\A k \in 1 .. Len(debug_results) :
             /\ k <= Len(debug_results')
             /\ debug_results'[k] = debug_results[k]]_vars

\* a sample of two trials returned two results with different objectives
C15_TwoTrialsReturned ==
    /\ pc = "returned" /\ error = NoError /\ trials = 2
    /\ Len(debug_results) = 2
    /\ debug_results[1].objfunc_val # debug_results[2].objfunc_val
    /\ debug_results[2].objfunc_val = best_value.best_obj_val

\* C16: after init the tracker holds only what init was given: the
\* parameters, the objective, and a repetition that is that of a freshly
\* constructed tracker, nothing of what an earlier trial left in it.
C16_InitResetsTriple ==
    call.op = "init" => best_value = BestValue(call.parameters, call.obj_value)

\* C18: calculate_next_s_test returns a vector as long as the one it was
\* given, in which every dimension that did not go through the perturbation
\* holds the given vector's value, and the list it was given holds after
\* the call the values it held before.
C18_UnselectedDimensionsKept ==
    ns.called =>
        /\ Len(ns.new_x_curr) = Len(ns.previous_x_curr)
        /\ \A j \in 0 .. (Len(ns.previous_x_curr) - 1) :
              j \notin ns.perturbed => ns.new_x_curr[j + 1] = ns.previous_x_curr[j + 1]
        /\ ns.previous_x_curr_after = ns.previous_x_curr

\* a call that changed the second dimension only
C18_OneDimensionChanged ==
    /\ ns.called /\ ns.perturbed = {1}
    /\ ns.new_x_curr[1] = ns.previous_x_curr[1]
    /\ ns.new_x_curr[2] # ns.previous_x_curr[2]
    /\ ns.previous_x_curr_after = ns.previous_x_curr

\* C19: for a search loop of N > 1 steps the selection threshold
\* 1 - ln(i+1)/ln(N) lets every draw of [0, 1) pass at i = 0, lets none pass
\* at i = N-1 and never lets a draw pass at i+1 that it stopped at i; so the
\* call for the first step perturbs every dimension and the call for the
\* last step perturbs exactly one.
C19_ThresholdFromOneToZero ==
    generator_repetitions > 1 =>
        /\ \A k \in Rand : below_probability_neighborhood(k, 0, generator_repetitions)
        /\ \A k \in Rand :
              ~below_probability_neighborhood(k, generator_repetitions - 1,
                                              generator_repetitions)
        /\ \A i \in 0 .. (generator_repetitions - 2), k \in Rand :
              below_probability_neighborhood(k, i + 1, generator_repetitions)
                  => below_probability_neighborhood(k, i, generator_repetitions)
        /\ (ns.called /\ ns.rep = 0) =>
              /\ ns.dvn_count = Len(ns.previous_x_curr)
              /\ ns.perturbed = 0 .. (Len(ns.previous_x_curr) - 1)
        /\ (ns.called /\ ns.rep = generator_repetitions - 1) =>
              /\ ns.dvn_count = 0
              /\ Cardinality(ns.perturbed) = 1

\* the call for the last step of a loop of more than two steps changed one
\* dimension
C19_LastStepOneDimension ==
    /\ generator_repetitions > 2 /\ ns.called
    /\ ns.rep = generator_repetitions - 1
    /\ ns.dvn_count = 0 /\ Cardinality(ns.perturbed) = 1
    /\ \E j \in ns.perturbed : ns.new_x_curr[j + 1] # ns.previous_x_curr[j + 1]

\* C20: every candidate calculate_next_s_test produces for evaluation has one
\* component per parameter, each within the bounds of its dimension and
\* integral where the dimension is discrete.
C20_CandidateIsSolutionVector ==
    ns.called => ns.new_x_curr \in Vectors

====
